---- MODULE Spec2Model ----
(***************************************************************************)
(* Model of the sequential test runner of the testing library:             *)
(*   lib/runner.js  runAll, uncaughtException, Runner, clone, isEmpty      *)
(*   lib/result.js  TestResult, CompositeResult                            *)
(* A tree of test cases is a set of numbered nodes in pre-order; node 0 is *)
(* the root mapping given to runAll.  The key of a node inside its parent  *)
(* mapping is param[n].key; keys iterate in node order.                    *)
(***************************************************************************)
EXTENDS Integers, Sequences, FiniteSets, TLC

\* ---------------------------------------------------------------- bounds
MaxNodes == 3        \* values in the tree given to runAll (all levels)
MaxDup == 2          \* completion handler invocations by cases beyond each case's first
MaxThrows == 1       \* exceptions thrown by cases during a run
MaxLiveNodes == 2    \* values in the trees of the liveness specification
MaxRuns == 2         \* calls of runAll with the same definition
MaxRerunNodes == 2   \* values in the trees that are run more than once
MaxNamedNodes == 2   \* values in the trees with numeric keys and named functions
MaxNestedNodes == 4  \* values in the trees where a nested mapping has entries and a later sibling

\* the numbers nodes can have: those of the largest trees
NodeLimit == IF MaxNestedNodes > MaxNodes THEN MaxNestedNodes ELSE MaxNodes
Nodes == 1..NodeLimit
Root == 0
Groups == 0..NodeLimit
Null == "null"          \* null / undefined argument or message
NoCase == 0             \* the global `next` before any dispatch (null)
Stale == -1             \* the global `next` holds the handler of a case of an earlier run

\* kinds of values a caller can put in a mapping
\*   object: nested mapping, function: one-argument (callback style) function,
\*   async: zero-argument function returning a deferred value,
\*   string: non-empty string, number: a number (any non-mapping scalar)
Kinds == {"object", "function", "async", "string", "number"}

\* values cases pass to their completion handler
ErrE == "e"                  \* an error (truthy first argument)
ValV == "v"                  \* a plain value
ValF == "fv"                 \* a value carrying a truthy failure field
UncaughtMsg == "Uncaught exception: stack"
DuplicatedMsg == "Duplicated call to callback"
EmptyTestMsg == "Empty test for key"

VARIABLES
    param,        \* the caller's tree: node -> [parent, kind, key, index, fname]
    started,      \* runAll has been called
    inCall,       \* runAll has not returned yet: the first case's body is running
    escaped,      \* an exception propagated out of the call to runAll
    series,       \* Runner.series of each group: keys (nodes) still in the cloned mapping
    runners,      \* groups for which a Runner has been constructed
    rfinished,    \* Runner.finished of each group
    gres,         \* CompositeResult of each group
    cres,         \* TestResult of each function case
    next,         \* module global `next`: the case whose handler it holds, or NoCase
    deferred,     \* queue of setImmediate steps: the group whose runOne is pending
    listeners,    \* installed 'uncaughtException' listeners
    cbCalls,      \* invocations of the caller's callback, in order
    contCalls,    \* per Runner: invocations of the continuation given to Runner.runAll
    contError,    \* per Runner: the error its continuation was last invoked with
    dispatched,   \* per function case: times its function was invoked
    called,       \* per callback style case: it has invoked its handler itself
    settled,      \* per zero-argument case: its deferred value has settled
    outcome,      \* per zero-argument case: how its deferred value settled, and with what
    extra,        \* handler invocations by cases beyond their first
    throws,       \* exceptions thrown so far
    first,        \* per case: outcome recorded by the first invocation of its handler
    casesDone,    \* the cases have nothing left to run: no more calls, settlements or throws
    late,         \* handler invocations that found their case's Runner already finished
    original,     \* the caller's mappings as they are now: group -> keys it holds
    cloned,       \* what clone(param) returned at the latest call of runAll
    run,          \* calls of runAll so far
    born,         \* per node: the run in which its result object was constructed
    added,        \* per group: the (success, failure) flags of the results passed to add
    bare,         \* testing.run was given a single function instead of a mapping
    timeoutArg,   \* the timeout given to testing.run, 0 when none was given
    timeout,      \* the delay testing.run gave to setTimeout
    timedOut,     \* the timer of testing.run has fired
    obj,          \* a CompositeResult a caller constructed and uses itself
    thrown        \* the message of the error the last call on obj threw, or Null

vars == <<param, started, inCall, escaped, series, runners, rfinished, gres, cres,
          next, deferred, listeners, cbCalls, contCalls, contError, dispatched,
          called, settled, outcome, extra, throws, first, casesDone, late,
          original, cloned, run, born, added, bare, timeoutArg, timeout, timedOut,
          obj, thrown>>

\* the state of a call of testing.run
timerVars == <<bare, timeoutArg, timeout, timedOut>>

\* the state of a direct use of CompositeResult
apiVars == <<obj, thrown>>

\* ---------------------------------------------------------------- trees
RECURSIVE Ancestors(_, _)
Ancestors(p, i) == IF i = 0 THEN {0} ELSE {i} \cup Ancestors(p, p[i])

\* parent vectors of the pre-order numbered trees with n nodes
Shapes(n) ==
    { p \in [1..n -> 0..(n - 1)] :
        \A i \in 1..n : /\ p[i] < i
                        /\ i > 1 => p[i] \in Ancestors(p, i - 1) }

\* only a nested mapping has entries of its own
IsTree(p, k) == \A i \in DOMAIN p : p[i] # 0 => k[p[i]] = "object"

Decorate(p, k) ==
    [i \in DOMAIN p |->
        [parent |-> p[i], kind |-> k[i],
         key |-> ToString(i), index |-> FALSE, fname |-> ""]]

TreesOfSize(n) ==
    UNION { { Decorate(p, k) : k \in { u \in [1..n -> Kinds] : IsTree(p, u) } }
            : p \in Shapes(n) }

Trees == UNION { TreesOfSize(n) : n \in 0..MaxNodes }

\* names a function can have: none (an anonymous function in an array), or one
FunctionNames == {"", "two"}

\* the trees in which a function may sit under a numeric key (index, as in an
\* array) or under another key, and may have a name of its own
NamedTreesOfSize(n) ==
    UNION { { [i \in 1..n |->
                 IF t[i].kind \in {"function", "async"}
                 THEN [t[i] EXCEPT !.index = ix[i], !.fname = fn[i],
                                   !.key = IF ix[i] THEN ToString(i) ELSE "k" \o ToString(i)]
                 ELSE t[i]]
              : ix \in [1..n -> BOOLEAN], fn \in [1..n -> FunctionNames] }
            : t \in TreesOfSize(n) }

NamedTrees == UNION { NamedTreesOfSize(n) : n \in 0..MaxNamedNodes }

Size == Len(param)
Children(g) == { i \in 1..Size : param[i].parent = g }

\* the parent of a mapping that is not an entry of the first mapping: the
\* definition given to a second call of runAll
Detached == -1

\* group g is the mapping given to a call of runAll
IsRoot(g) == g = Root \/ param[g].parent = Detached

\* ---------------------------------------------------------------- clone / isEmpty
\* clone(series): functions and strings are copied by reference, every other
\* value goes through clone(), which returns undefined for a non-object
\* a clone that keeps functions only
CloneKind_FunctionsOnly(k) ==
    CASE k = "function" -> "function"
      [] k = "async" -> "async"
      [] k = "object" -> "object"
      [] OTHER -> "undefined"

\* a clone that returns an empty mapping for a value that is not a mapping
CloneKind_EmptyMapping(k) ==
    CASE k = "function" -> "function"
      [] k = "async" -> "async"
      [] k = "string" -> "string"
      [] OTHER -> "object"

CloneKind(k) ==
    CASE k = "function" -> "function"
      [] k = "async" -> "async"
      [] k = "string" -> "string"
      [] k = "object" -> "object"
      [] OTHER -> "undefined"

\* what the copy holds for a value of kind k: the same value (functions and
\* strings are assigned), a new object (clone builds `copy = {}`), or nothing
\* a clone that copies the top level only: nested mappings are shared
CloneRef_Shallow(k) ==
    CASE k \in {"function", "async", "string", "object"} -> "same"
      [] OTHER -> "none"

CloneRef(k) ==
    CASE k \in {"function", "async", "string"} -> "same"
      [] k = "object" -> "new"
      [] OTHER -> "none"

\* clone(series) for the mappings with key sets keys: the keys of every level,
\* and for every value its kind and whether it is the original's value
clone(keys) ==
    [keys |-> [g \in Groups |-> keys[g]],
     kind |-> [i \in Nodes |-> IF i <= Len(param) THEN CloneKind(param[i].kind) ELSE "undefined"],
     ref  |-> [i \in Nodes |-> IF i <= Len(param) THEN CloneRef(param[i].kind) ELSE "none"]]

\* the Runner of group g works on the caller's own object
SeriesIsOriginal(g) == g # 0 /\ CloneRef(param[g].kind) = "same"

Truthy(k) == k # "undefined"

ValueKind(i) == CloneKind(param[i].kind)

\* an isEmpty that looks at the keys only, not at their values
isEmpty_NoKeys(keys) == keys = {}

\* isEmpty(object): true unless some key holds a truthy value
isEmpty(keys) == \A i \in keys : ~Truthy(ValueKind(i))

\* a loop that takes the last key of the mapping
FirstKey_Last(keys) == CHOOSE i \in keys : \A j \in keys : i >= j

FirstKey(keys) == CHOOSE i \in keys : \A j \in keys : i <= j

\* ---------------------------------------------------------------- TestResult
\* outcomes of the first invocation of a case's handler
Outcomes == {"none", "success", "failure"}

NewTestResult(name) ==
    [key |-> name, success |-> FALSE, failure |-> FALSE,
     message |-> Null, finished |-> FALSE]

\* fail() that leaves the result unfinished
fail_NotFinished(r, message) ==
    [r EXCEPT !.failure = TRUE, !.success = FALSE, !.message = message]

fail(r, message) ==
    [r EXCEPT !.failure = TRUE, !.success = FALSE,
              !.message = message, !.finished = TRUE]

\* succeed() that records the repeated success without failing
succeed_KeepSuccess(r, message) ==
    IF r.finished
    THEN [r EXCEPT !.failure = TRUE, !.message = DuplicatedMsg]
    ELSE [r EXCEPT !.success = TRUE, !.message = message, !.finished = TRUE]

\* succeed() that keeps the message of the repeated call
succeed_KeepMessage(r, message) ==
    IF r.finished
    THEN fail(r, message)
    ELSE [r EXCEPT !.success = TRUE, !.message = message, !.finished = TRUE]

succeed(r, message) ==
    IF r.finished
    THEN fail(r, IF r.success THEN DuplicatedMsg ELSE message)
    ELSE [r EXCEPT !.success = TRUE, !.message = message, !.finished = TRUE]

\* a test that finds no failure marker on any value
HasFailureField_Never(v) == FALSE

HasFailureField(v) == v = ValF

\* callback() that reports every error, not only the first failure
TestResultCallback_EveryError(r, error, result) ==
    IF error # Null
    THEN fail(r, error)
    ELSE IF ~r.failure
         THEN IF result # Null /\ HasFailureField(result)
              THEN fail(r, result)
              ELSE succeed(r, result)
         ELSE r

\* callback() that records a value on a result that has already failed
TestResultCallback_NoFailureGuard(r, error, result) ==
    IF error # Null
    THEN IF ~r.failure THEN fail(r, error) ELSE r
    ELSE IF result # Null /\ HasFailureField(result)
         THEN fail(r, result)
         ELSE succeed(r, result)

TestResultCallback(r, error, result) ==
    IF error # Null
    THEN IF ~r.failure THEN fail(r, error) ELSE r
    ELSE IF ~r.failure
         THEN IF result # Null /\ HasFailureField(result)
              THEN fail(r, result)
              ELSE succeed(r, result)
         ELSE r

\* ---------------------------------------------------------------- CompositeResult
\* a CompositeResult that starts as a success
NewCompositeResult_Success(key) ==
    [key |-> key, success |-> TRUE, failure |-> FALSE,
     results |-> {}, started |-> FALSE, elapsed |-> FALSE]

NewCompositeResult(key) ==
    [key |-> key, success |-> FALSE, failure |-> FALSE,
     results |-> {}, started |-> FALSE, elapsed |-> FALSE]

\* add() that counts every child without success as a failure
CompositeAdd_FailureUnlessSuccess(g, name, node, childSuccess, childFailure) ==
    LET stored == { p \in g.results : p[1] # name } \cup { <<name, node>> }
    IN  [g EXCEPT !.results = stored,
                  !.success = IF childSuccess /\ ~g.failure THEN TRUE ELSE FALSE,
                  !.failure = IF ~childSuccess THEN TRUE ELSE g.failure]

\* add() that sets success without looking at the failure already recorded
CompositeAdd_NotSticky(g, name, node, childSuccess, childFailure) ==
    LET stored == { p \in g.results : p[1] # name } \cup { <<name, node>> }
        s1 == IF childSuccess THEN TRUE ELSE g.success
    IN  [g EXCEPT !.results = stored,
                  !.success = IF childFailure THEN FALSE ELSE s1,
                  !.failure = IF childFailure THEN TRUE ELSE g.failure]

\* add() that overwrites the flags with those of the last child added
CompositeAdd_LastChild(g, name, node, childSuccess, childFailure) ==
    LET stored == { p \in g.results : p[1] # name } \cup { <<name, node>> }
    IN  [g EXCEPT !.results = stored,
                  !.success = childSuccess,
                  !.failure = childFailure]

\* add() in which a failed child does not clear the success recorded before
CompositeAdd_KeepSuccess(g, name, node, childSuccess, childFailure) ==
    LET stored == { p \in g.results : p[1] # name } \cup { <<name, node>> }
    IN  [g EXCEPT !.results = stored,
                  !.success = IF childSuccess /\ ~g.failure THEN TRUE ELSE g.success,
                  !.failure = IF childFailure THEN TRUE ELSE g.failure]

\* add() that keeps the result already stored under the same key
CompositeAdd_KeepBoth(g, name, node, childSuccess, childFailure) ==
    LET s1 == IF childSuccess /\ ~g.failure THEN TRUE ELSE g.success
    IN  [g EXCEPT !.results = @ \cup { <<name, node>> },
                  !.success = IF childFailure THEN FALSE ELSE s1,
                  !.failure = IF childFailure THEN TRUE ELSE g.failure]

\* add(result): name, node identify the added result, childSuccess and
\* childFailure are its flags at that moment
CompositeAdd(g, name, node, childSuccess, childFailure) ==
    LET stored == { p \in g.results : p[1] # name } \cup { <<name, node>> }
        s1 == IF childSuccess /\ ~g.failure THEN TRUE ELSE g.success
    IN  [g EXCEPT !.results = stored,
                  !.success = IF childFailure THEN FALSE ELSE s1,
                  !.failure = IF childFailure THEN TRUE ELSE g.failure]

CompositeStart(g) == [g EXCEPT !.started = TRUE]

MissingStartMsg == "Missing start time"

\* a finish() that tests the start time
FinishThrows_StartMs(g) == ~g.started

\* finish() throws if `!this.start`: `this.start` is the method, which every
\* CompositeResult has, whatever startMs holds
FinishThrows(g) == FALSE

\* finish(): sets elapsedMs unless it throws
CompositeFinish(g) == IF FinishThrows(g) THEN g ELSE [g EXCEPT !.elapsed = TRUE]

\* ---------------------------------------------------------------- program state
\* the mutable state of the program as one record, so that a handler and
\* everything it calls synchronously is one step
State ==
    [series |-> series, runners |-> runners, rfinished |-> rfinished,
     gres |-> gres, cres |-> cres, next |-> next, deferred |-> deferred,
     listeners |-> listeners, cbCalls |-> cbCalls, contCalls |-> contCalls,
     contError |-> contError,
     dispatched |-> dispatched, first |-> first, late |-> late,
     original |-> original, run |-> run, born |-> born, added |-> added]

Install(s) ==
    /\ series' = s.series
    /\ runners' = s.runners
    /\ rfinished' = s.rfinished
    /\ gres' = s.gres
    /\ cres' = s.cres
    /\ next' = s.next
    /\ deferred' = s.deferred
    /\ listeners' = s.listeners
    /\ cbCalls' = s.cbCalls
    /\ contCalls' = s.contCalls
    /\ contError' = s.contError
    /\ dispatched' = s.dispatched
    /\ late' = s.late
    /\ first' = s.first
    /\ original' = s.original
    /\ run' = s.run
    /\ born' = s.born
    /\ added' = s.added

GroupKey(g) == IF IsRoot(g) THEN "main" ELSE param[g].key

\* isNumber(key) for the key of node i
isNumber(i) == param[i].index

\* a testName that takes the function's name under any key
TestName_AnyKey(i) ==
    IF param[i].fname # "" THEN param[i].fname ELSE param[i].key

\* testName of Runner.runOne: the function's name for an array index
TestName(i) ==
    IF isNumber(i) /\ param[i].fname # "" THEN param[i].fname ELSE param[i].key

\* ---------------------------------------------------------------- Runner
\* deleteAndRunNext that deletes the key and schedules nothing
deleteAndRunNext_NoDefer(s, g, key) ==
    IF key \notin s.series[g]
    THEN s
    ELSE [s EXCEPT !.series[g] = @ \ {key}]

\* deleteAndRunNext without the test for a key already removed
deleteAndRunNext_NoGuard(s, g, key) ==
    [s EXCEPT !.series[g] = @ \ {key},
              !.original[g] = IF SeriesIsOriginal(g) THEN @ \ {key} ELSE @,
              !.deferred = Append(@, g)]

deleteAndRunNext(s, g, key) ==
    IF key \notin s.series[g]
    THEN s
    ELSE [s EXCEPT !.series[g] = @ \ {key},
                   !.original[g] = IF SeriesIsOriginal(g) THEN @ \ {key} ELSE @,
                   !.deferred = Append(@, g)]

\* an invocation of the caller's callback: its two arguments, and the fields
\* the delivered GroupResult has at that moment
Delivery(s, g, error, result) ==
    [error |-> error, result |-> result,
     key |-> s.gres[g].key,
     success |-> s.gres[g].success,
     failure |-> s.gres[g].failure]

\* runAll's callback with the `return` before callback(result) left out
RunAllCallback_NoReturn(s, g, error, hasResult) ==
    LET s1 == [s EXCEPT !.listeners = IF @ > 0 THEN @ - 1 ELSE 0]
        s2 == IF hasResult /\ s1.gres[g].failure
              THEN LET s3 == [s1 EXCEPT !.gres[g].key = "failure"]
                   IN  [s3 EXCEPT !.cbCalls = Append(@, Delivery(s3, g, "result", "undefined"))]
              ELSE s1
    IN  [s2 EXCEPT !.cbCalls =
            Append(@, Delivery(s2, g, error, IF hasResult THEN "result" ELSE "undefined"))]

\* runAll's callback without the relabelling of a failed root
RunAllCallback_NoRelabel(s, g, error, hasResult) ==
    LET s1 == [s EXCEPT !.listeners = IF @ > 0 THEN @ - 1 ELSE 0]
    IN  IF hasResult /\ s1.gres[g].failure
        THEN [s1 EXCEPT !.cbCalls = Append(@, Delivery(s1, g, "result", "undefined"))]
        ELSE [s1 EXCEPT !.cbCalls =
                 Append(@, Delivery(s1, g, error, IF hasResult THEN "result" ELSE "undefined"))]

\* runAll's callback without the removal of the listener
RunAllCallback_KeepListener(s, g, error, hasResult) ==
    IF hasResult /\ s.gres[g].failure
    THEN LET s2 == [s EXCEPT !.gres[g].key = "failure"]
         IN  [s2 EXCEPT !.cbCalls = Append(@, Delivery(s2, g, "result", "undefined"))]
    ELSE [s EXCEPT !.cbCalls =
             Append(@, Delivery(s, g, error, IF hasResult THEN "result" ELSE "undefined"))]

\* the callback runAll() gives to the root runner: error is the first argument
\* ("result" when the GroupResult itself is passed as the error), result the second
RunAllCallback(s, g, error, hasResult) ==
    LET s1 == [s EXCEPT !.listeners = IF @ > 0 THEN @ - 1 ELSE 0]
    IN  IF hasResult /\ s1.gres[g].failure
        THEN LET s2 == [s1 EXCEPT !.gres[g].key = "failure"]
             IN  [s2 EXCEPT !.cbCalls = Append(@, Delivery(s2, g, "result", "undefined"))]
        ELSE [s1 EXCEPT !.cbCalls =
                 Append(@, Delivery(s1, g, error, IF hasResult THEN "result" ELSE "undefined"))]

\* the nested callback without the call to deleteAndRunNext
NestedCallback_NoAdvance(s, g, error) ==
    IF error # Null
    THEN s
    ELSE LET p == param[g].parent
         IN  [s EXCEPT !.gres[p] =
                 CompositeAdd(@, s.gres[g].key, g,
                              s.gres[g].success, s.gres[g].failure),
                       !.added[p] = @ \cup {<<s.gres[g].success, s.gres[g].failure>>}]

\* a nested callback that logs the error and moves on to the next key
NestedCallback_AdvanceOnError(s, g, error) ==
    LET p == param[g].parent
    IN  IF error # Null
        THEN deleteAndRunNext(s, p, g)
        ELSE deleteAndRunNext(
                 [s EXCEPT !.gres[p] =
                        CompositeAdd(@, s.gres[g].key, g,
                                     s.gres[g].success, s.gres[g].failure),
                           !.added[p] = @ \cup {<<s.gres[g].success, s.gres[g].failure>>}],
                 p, g)

\* the callback runOne() gives to the runner of nested mapping g
NestedCallback(s, g, error) ==
    IF error # Null
    THEN s
    ELSE LET p == param[g].parent
             s1 == [s EXCEPT !.gres[p] =
                        CompositeAdd(@, s.gres[g].key, g,
                                     s.gres[g].success, s.gres[g].failure),
                             !.added[p] = @ \cup {<<s.gres[g].success, s.gres[g].failure>>}]
         IN  deleteAndRunNext(s1, p, g)

\* the arrow function Runner.runAll passes to runOne
RunnerCallback(s, g, error, hasResult) ==
    IF s.rfinished[g]
    THEN s
    ELSE LET s1 == [s EXCEPT !.gres[g] = CompositeFinish(@),
                             !.rfinished[g] = TRUE,
                             !.contCalls[g] = @ + 1,
                             !.contError[g] = error]
         IN  IF IsRoot(g)
             THEN RunAllCallback(s1, g, error, hasResult)
             ELSE NestedCallback(s1, g, error)

RECURSIVE runOne(_, _)
\* runOne that moves on to the next key without waiting for the handler
runOne_NoWait(s, g) ==
    IF isEmpty(s.series[g])
    THEN RunnerCallback(s, g, Null, TRUE)
    ELSE LET key == FirstKey(s.series[g])
             kind == ValueKind(key)
         IN  CASE ~Truthy(kind) ->
                    RunnerCallback(s, g, EmptyTestMsg, FALSE)
               [] kind = "object" ->
                    runOne([s EXCEPT !.runners = @ \cup {key},
                                     !.rfinished[key] = FALSE,
                                     !.gres[key] = CompositeStart(NewCompositeResult(GroupKey(key)))],
                           key)
               [] kind \in {"function", "async"} ->
                    deleteAndRunNext([s EXCEPT !.next = key,
                                               !.cres[key] = NewTestResult(TestName(key)),
                                               !.dispatched[key] = @ + 1],
                                     g, key)
               [] OTHER ->
                    deleteAndRunNext(s, g, key)

\* runOne that reports the falsy value and goes on with the next key
runOne_ContinueAfterEmpty(s, g) ==
    IF isEmpty(s.series[g])
    THEN RunnerCallback(s, g, Null, TRUE)
    ELSE LET key == FirstKey(s.series[g])
             kind == ValueKind(key)
         IN  CASE ~Truthy(kind) ->
                    deleteAndRunNext(RunnerCallback(s, g, EmptyTestMsg, FALSE), g, key)
               [] kind = "object" ->
                    runOne([s EXCEPT !.runners = @ \cup {key},
                                     !.rfinished[key] = FALSE,
                                     !.born[key] = s.run,
                                     !.gres[key] = CompositeStart(NewCompositeResult(GroupKey(key)))],
                           key)
               [] kind \in {"function", "async"} ->
                    [s EXCEPT !.next = key,
                              !.cres[key] = NewTestResult(TestName(key)),
                              !.born[key] = s.run,
                              !.dispatched[key] = @ + 1]
               [] OTHER ->
                    deleteAndRunNext(s, g, key)

\* runOne that records an invalid value as a failed result
runOne_RecordInvalid(s, g) ==
    IF isEmpty(s.series[g])
    THEN RunnerCallback(s, g, Null, TRUE)
    ELSE LET key == FirstKey(s.series[g])
             kind == ValueKind(key)
         IN  CASE ~Truthy(kind) ->
                    RunnerCallback(s, g, EmptyTestMsg, FALSE)
               [] kind = "object" ->
                    runOne([s EXCEPT !.runners = @ \cup {key},
                                     !.rfinished[key] = FALSE,
                                     !.born[key] = s.run,
                                     !.gres[key] = CompositeStart(NewCompositeResult(GroupKey(key)))],
                           key)
               [] kind \in {"function", "async"} ->
                    [s EXCEPT !.next = key,
                              !.cres[key] = NewTestResult(TestName(key)),
                              !.born[key] = s.run,
                              !.dispatched[key] = @ + 1]
               [] OTHER ->
                    deleteAndRunNext(
                        [s EXCEPT !.gres[g] = CompositeAdd(@, param[key].key, key, FALSE, TRUE)],
                        g, key)

runOne(s, g) ==
    IF isEmpty(s.series[g])
    THEN RunnerCallback(s, g, Null, TRUE)
    ELSE LET key == FirstKey(s.series[g])
             kind == ValueKind(key)
         IN  CASE ~Truthy(kind) ->
                    RunnerCallback(s, g, EmptyTestMsg, FALSE)
               [] kind = "object" ->
                    \* new Runner(key, value).runAll(...)
                    runOne([s EXCEPT !.runners = @ \cup {key},
                                     !.rfinished[key] = FALSE,
                                     !.born[key] = s.run,
                                     !.gres[key] = CompositeStart(NewCompositeResult(GroupKey(key)))],
                           key)
               [] kind \in {"function", "async"} ->
                    \* next = this.getNext(key, testName, callback); value(...)
                    [s EXCEPT !.next = key,
                              !.cres[key] = NewTestResult(TestName(key)),
                              !.born[key] = s.run,
                              !.dispatched[key] = @ + 1]
               [] OTHER ->
                    deleteAndRunNext(s, g, key)

\* a closure that stops the group at the first failed case
getNext_HaltOnFailure(s, c, error, result) ==
    LET g == param[c].parent
        r == TestResultCallback(s.cres[c], error, result)
        s1 == [s EXCEPT !.cres[c] = r,
                        !.gres[g] = CompositeAdd(@, r.key, c, r.success, r.failure),
                        !.added[g] = @ \cup {<<r.success, r.failure>>},
                        !.late = IF s.rfinished[g] THEN @ + 1 ELSE @,
                        !.first[c] = IF s.cres[c].finished THEN @
                                     ELSE IF r.failure THEN "failure" ELSE "success"]
    IN  IF r.failure THEN s1 ELSE deleteAndRunNext(s1, g, c)

\* the closure returned by getNext for case c
getNext(s, c, error, result) ==
    LET g == param[c].parent
        r == TestResultCallback(s.cres[c], error, result)
        s1 == [s EXCEPT !.cres[c] = r,
                        !.gres[g] = CompositeAdd(@, r.key, c, r.success, r.failure),
                        !.added[g] = @ \cup {<<r.success, r.failure>>},
                        !.late = IF s.rfinished[g] THEN @ + 1 ELSE @,
                        !.first[c] = IF s.cres[c].finished THEN @
                                     ELSE IF r.failure THEN "failure" ELSE "success"]
    IN  deleteAndRunNext(s1, g, c)

\* a listener that records the exception and does not move on
uncaughtException_NoAdvance(s) ==
    IF s.next = NoCase
    THEN s
    ELSE LET c == s.next
             g == param[c].parent
             r == TestResultCallback(s.cres[c], UncaughtMsg, Null)
         IN  [s EXCEPT !.cres[c] = r,
                       !.gres[g] = CompositeAdd(@, r.key, c, r.success, r.failure),
                       !.added[g] = @ \cup {<<r.success, r.failure>>},
                       !.first[c] = IF s.cres[c].finished THEN @ ELSE "failure"]

\* a handler left by an earlier run works on that run's copy and results,
\* which are no longer part of the state
uncaughtException(s) ==
    IF s.next \in {NoCase, Stale} THEN s ELSE getNext(s, s.next, UncaughtMsg, Null)

\* the process emits 'uncaughtException' to each installed listener
RECURSIVE Emit(_, _)
Emit(s, k) == IF k = 0 THEN s ELSE Emit(uncaughtException(s), k - 1)

\* ---------------------------------------------------------------- actions
\* the deferred value of a zero-argument case has not settled
Pending == [how |-> "pending", value |-> Null]

\* the state of the module before runAll is called, for the tree in param
Start ==
    /\ started = FALSE
    /\ inCall = FALSE
    /\ escaped = FALSE
    /\ series = [g \in Groups |-> {}]
    /\ runners = {}
    /\ rfinished = [g \in Groups |-> FALSE]
    /\ gres = [g \in Groups |-> NewCompositeResult(Null)]
    /\ cres = [c \in Nodes |-> NewTestResult(Null)]
    /\ next = NoCase
    /\ deferred = <<>>
    /\ listeners = 0
    /\ cbCalls = <<>>
    /\ contCalls = [g \in Groups |-> 0]
    /\ contError = [g \in Groups |-> Null]
    /\ dispatched = [c \in Nodes |-> 0]
    /\ called = [c \in Nodes |-> FALSE]
    /\ settled = [c \in Nodes |-> FALSE]
    /\ outcome = [c \in Nodes |-> Pending]
    /\ extra = 0
    /\ throws = 0
    /\ casesDone = FALSE
    /\ late = 0
    /\ first = [c \in Nodes |-> "none"]
    /\ original = [g \in Groups |-> Children(g)]
    /\ cloned = clone([g \in Groups |-> {}])
    /\ run = 0
    /\ born = [n \in Groups |-> 0]
    /\ added = [g \in Groups |-> {}]
    /\ obj = NewCompositeResult(Null)
    /\ thrown = Null

\* runAll is called by the caller itself: there is no timer
NoTimer == bare = FALSE /\ timeoutArg = 0 /\ timeout = 0 /\ timedOut = FALSE

Init == param \in Trees /\ Start /\ NoTimer

\* runAll(param, callback), up to the point where it returns or the first
\* case's function is running
RunAllCall ==
    /\ ~started
    /\ started' = TRUE
    /\ cloned' = clone(original)
    /\ LET s0 == [State EXCEPT
                     !.series = clone(original).keys,
                     !.listeners = @ + 1,
                     !.runners = @ \cup {Root},
                     !.run = @ + 1,
                     !.born[Root] = run + 1,
                     !.gres[Root] = CompositeStart(NewCompositeResult(GroupKey(Root)))]
           s1 == runOne(s0, Root)
       IN  /\ Install(s1)
           /\ inCall' = (s1.next # NoCase)
    /\ UNCHANGED <<apiVars, param, escaped, called, settled, outcome, extra, throws, casesDone>>

\* the caller calls runAll(param, callback) itself
RunAll == RunAllCall /\ UNCHANGED timerVars

\* the first case's function returns, and with it runAll
Return ==
    /\ inCall
    /\ inCall' = FALSE
    /\ UNCHANGED <<apiVars, timerVars, param, cloned, started, escaped, series, runners, rfinished, gres, cres,
                   next, deferred, listeners, cbCalls, contCalls, contError,
                   dispatched, called, settled, outcome, extra, throws, first, casesDone, late,
                   original, run, born, added>>

\* a callback style case invokes the handler it was given
Complete(c, error, result) ==
    /\ c \in 1..Size
    /\ param[c].kind = "function"
    /\ dispatched[c] > 0
    /\ ~casesDone
    /\ called[c] => extra < MaxDup
    /\ called' = [called EXCEPT ![c] = TRUE]
    /\ extra' = IF called[c] THEN extra + 1 ELSE extra
    /\ Install(getNext(State, c, error, result))
    /\ UNCHANGED <<apiVars, timerVars, param, cloned, started, inCall, escaped, settled, outcome, throws, casesDone>>

\* the settlements after which the then/catch closures call next(error, result):
\* a rejection calls next(reason), a resolution next(null, value); a falsy
\* reason and an undefined value both arrive as next(undefined, undefined)
Settlements(error, result) ==
    IF error # Null
    THEN {[how |-> "rejected", value |-> error]}
    ELSE IF result # Null
         THEN {[how |-> "resolved", value |-> result]}
         ELSE {[how |-> "rejected", value |-> Null], [how |-> "resolved", value |-> Null]}

\* closures that call the handler made for their own case
SettleTarget_Own(c) == c

\* the handler the then/catch closures of case c call: `next` is the module
\* global, read when the value settles
SettleTarget(c) == next

\* the deferred value of a zero-argument case settles: the then/catch
\* closures call whatever the global `next` holds at that moment
Settle(c, error, result) ==
    /\ c \in 1..Size
    /\ param[c].kind = "async"
    /\ dispatched[c] > 0
    /\ ~settled[c]
    /\ ~casesDone
    /\ ~inCall
    /\ settled' = [settled EXCEPT ![c] = TRUE]
    /\ \E o \in Settlements(error, result) : outcome' = [outcome EXCEPT ![c] = o]
    /\ Install(getNext(State, SettleTarget(c), error, result))
    /\ UNCHANGED <<apiVars, timerVars, param, cloned, started, inCall, escaped, called, extra, throws, casesDone>>

\* the first case throws while runAll is still on the stack: the exception
\* leaves runAll; if the caller does not catch it the process emits it
ThrowSync(caught) ==
    /\ inCall
    /\ ~casesDone
    /\ throws < MaxThrows
    /\ throws' = throws + 1
    /\ inCall' = FALSE
    /\ escaped' = TRUE
    /\ settled' = [settled EXCEPT ![next] = TRUE]
    /\ Install(IF caught THEN State ELSE Emit(State, listeners))
    /\ UNCHANGED <<apiVars, timerVars, param, cloned, started, called, outcome, extra, casesDone>>

\* an exception is thrown from a deferred step or from asynchronous code of a case
ThrowAsync ==
    /\ ~inCall
    /\ next # NoCase
    /\ listeners > 0
    /\ ~casesDone
    /\ throws < MaxThrows
    /\ throws' = throws + 1
    /\ Install(Emit(State, listeners))
    /\ UNCHANGED <<apiVars, timerVars, param, cloned, started, inCall, escaped, called, settled, outcome, extra, casesDone>>

\* a step deferred by deleteAndRunNext runs
RunDeferred ==
    /\ ~inCall
    /\ deferred # <<>>
    /\ Install(runOne([State EXCEPT !.deferred = Tail(@)], Head(deferred)))
    /\ UNCHANGED <<apiVars, timerVars, param, cloned, started, inCall, escaped, called, settled, outcome, extra, throws, casesDone>>

\* the cases run out of code: from here on no case calls its handler,
\* settles a deferred value or throws
CasesStop ==
    /\ started
    /\ ~casesDone
    /\ casesDone' = TRUE
    /\ UNCHANGED <<apiVars, timerVars, param, cloned, started, inCall, escaped, series, runners, rfinished, gres,
                   cres, next, deferred, listeners, cbCalls, contCalls, contError,
                   dispatched, called, settled, outcome, extra, throws, first, late,
                   original, run, born, added>>

Next ==
    \/ RunAll
    \/ Return
    \/ \E c \in Nodes : \E a \in {<<ErrE, Null>>, <<Null, ValV>>, <<Null, ValF>>} :
          Complete(c, a[1], a[2])
    \/ \E c \in Nodes : \E a \in {<<ErrE, Null>>, <<Null, ValV>>, <<Null, ValF>>, <<Null, Null>>} :
          Settle(c, a[1], a[2])
    \/ \E caught \in BOOLEAN : ThrowSync(caught)
    \/ ThrowAsync
    \/ RunDeferred
    \/ CasesStop

Spec == Init /\ [][Next]_vars

\* ---------------------------------------------------------------- derived notions
\* nothing of the program is pending and the cases will do nothing more
Stalled == started /\ casesDone /\ ~inCall /\ deferred = <<>>

\* the handler of the most recently dispatched case has not been invoked
Waiting == next # NoCase /\ ~cres[next].finished

\* a nested Runner completed with a hard error
NestedError ==
    \E g \in runners \ {Root} : contCalls[g] > 0 /\ contError[g] # Null

\* ---------------------------------------------------------------- claims
\* C1 (as stated): runAll invokes callback exactly once for every input tree,
\* also when a case never invokes its completion handler: once the cases have
\* nothing left to run and no step is pending, callback has been invoked once.
C1_Original == Stalled => Len(cbCalls) = 1

\* C1 (amended): callback is invoked at most once for every input tree, and by
\* the time the run comes to rest it has been invoked exactly once, unless the
\* handler of the last dispatched case was never invoked or a nested mapping
\* ended with the error 'Empty test for <key>'.
C1_ExactlyOnceUnlessStuck ==
    /\ Len(cbCalls) <= 1
    /\ Stalled => (Len(cbCalls) = 1 \/ Waiting \/ NestedError)

C1_Witness ==
    /\ Stalled
    /\ Len(cbCalls) = 1
    /\ throws > 0
    /\ extra > 0

\* C2: every Runner, the root included, invokes its continuation at most
\* once, and runAll invokes the caller's callback at most once.
C2_ContinuationAtMostOnce ==
    /\ \A g \in Groups : contCalls[g] <= 1
    /\ Len(cbCalls) <= 1

C2_Witness ==
    /\ late > 0
    /\ throws > 0
    /\ extra > 0
    /\ Len(cbCalls) = 1
    /\ \E g \in Nodes : contCalls[g] = 1

\* ---------------------------------------------------------------- liveness
\* every value of the tree is a function or a nested mapping
AllFunctionsOrMappings ==
    \A i \in 1..Size : param[i].kind \in {"object", "function", "async"}

\* some case can still cause a handler invocation
CanStillInvoke ==
    /\ ~casesDone
    /\ \/ \E c \in 1..Size :
             /\ param[c].kind = "function"
             /\ dispatched[c] > 0
             /\ (called[c] => extra < MaxDup)
       \/ \E c \in 1..Size :
             /\ param[c].kind = "async"
             /\ dispatched[c] > 0
             /\ ~settled[c]
       \/ (throws < MaxThrows /\ listeners > 0)

\* the handler of the last dispatched case has not been invoked and never will be
Abandoned == Waiting /\ ~inCall /\ deferred = <<>> /\ ~CanStillInvoke

\* the handler of the case the run is waiting for is invoked
InvokeWaiting ==
    /\ Waiting
    /\ \/ \E a \in {<<ErrE, Null>>, <<Null, ValV>>, <<Null, ValF>>} :
             Complete(next, a[1], a[2])
       \/ \E c \in Nodes : \E a \in {<<ErrE, Null>>, <<Null, ValV>>, <<Null, ValF>>} :
             Settle(c, a[1], a[2])
       \/ ThrowAsync

\* runs on trees of functions and nested mappings in which the event loop runs
\* what the program has scheduled (runAll is called, the running function
\* returns, deferred steps are executed), under the hypothesis that a dispatched case's handler is invoked as long as
\* something is left that can invoke it
LiveInit == Init /\ AllFunctionsOrMappings /\ Size <= MaxLiveNodes

LiveSpec ==
    /\ LiveInit
    /\ [][Next]_vars
    /\ WF_vars(RunAll)
    /\ WF_vars(Return)
    /\ WF_vars(RunDeferred)
    /\ WF_vars(InvokeWaiting)

\* C3: if every value of the tree is a function or a nested mapping and the
\* completion handler of every dispatched case is eventually invoked, then
\* (deferred steps being executed) runAll eventually invokes the callback:
\* every behaviour reaches the callback, or a state from which the handler of
\* the last dispatched case can never be invoked.
C3_EventuallyCallback ==
    AllFunctionsOrMappings => <>(Len(cbCalls) >= 1 \/ Abandoned)

C3_Witness ==
    /\ AllFunctionsOrMappings
    /\ Len(cbCalls) = 1
    /\ \E c \in 1..Size : dispatched[c] > 0 /\ param[c].parent # Root
    /\ \A c \in 1..Size : param[c].kind \in {"function", "async"} => cres[c].finished

\* ---------------------------------------------------------------- delivery
Delivered == Len(cbCalls) >= 1

\* the root Runner completed with its result (no 'Empty test' error)
RootCompletedWithResult == contCalls[Root] >= 1 /\ contError[Root] = Null

IsCase(c) == c \in 1..Size /\ param[c].kind \in {"function", "async"}

Parents == [i \in 1..Size |-> param[i].parent]

\* group g holds a function case at some depth
HasCase(g) == \E c \in 1..Size : IsCase(c) /\ g \in (Ancestors(Parents, c) \ {c})

\* C4 (as stated): when the root GroupResult has failure = true at completion
\* its key becomes 'failure' and it is passed as the only argument of callback;
\* otherwise callback receives the root result, key 'main', as second argument.
C4_Original ==
    Delivered =>
        IF cbCalls[1].failure
        THEN /\ cbCalls[1].key = "failure"
             /\ cbCalls[1].error = "result"
             /\ cbCalls[1].result = "undefined"
        ELSE /\ cbCalls[1].key = "main"
             /\ cbCalls[1].result = "result"

\* C4 (amended): when the root completes with its result, a root with
\* failure = true is relabelled 'failure' and passed as the only argument of
\* callback, and a root without failure is passed as second argument with key
\* 'main' and no error; when the root completes with the error 'Empty test for
\* <key>', callback receives that error alone and the key stays 'main'.
C4_FailureGoesToErrorChannel ==
    Delivered =>
        IF contError[Root] = Null
        THEN IF cbCalls[1].failure
             THEN /\ cbCalls[1].key = "failure"
                  /\ cbCalls[1].error = "result"
                  /\ cbCalls[1].result = "undefined"
             ELSE /\ cbCalls[1].key = "main"
                  /\ cbCalls[1].error = Null
                  /\ cbCalls[1].result = "result"
        ELSE /\ cbCalls[1].key = "main"
             /\ cbCalls[1].error = EmptyTestMsg
             /\ cbCalls[1].result = "undefined"

C4_Witness ==
    /\ Delivered
    /\ cbCalls[1].failure
    /\ cbCalls[1].error = "result"
    /\ \E c \in 1..Size : IsCase(c) /\ cres[c].success

\* every case completed once, without error, with a value without failure marker
PureSuccess ==
    /\ extra = 0
    /\ throws = 0
    /\ \A c \in 1..Size : ~cres[c].failure

\* C5 (as stated): in a run in which every case completes exactly once with a
\* plain value, the delivered root, every nested group and every case result
\* have success = true and failure = false.
C5_Original ==
    (Delivered /\ RootCompletedWithResult /\ PureSuccess) =>
        /\ cbCalls[1].success /\ ~cbCalls[1].failure
        /\ \A g \in runners : gres[g].success /\ ~gres[g].failure
        /\ \A c \in 1..Size : IsCase(c) => cres[c].success /\ ~cres[c].failure

\* C5 (amended): in such a run the root is delivered as the result, no result
\* has failure, every case has success, and a group (the root included) has
\* success exactly when it holds at least one function case at some depth.
C5_AllSuccess ==
    (Delivered /\ RootCompletedWithResult /\ PureSuccess) =>
        /\ cbCalls[1].error = Null /\ cbCalls[1].result = "result"
        /\ ~cbCalls[1].failure
        /\ cbCalls[1].success <=> HasCase(Root)
        /\ \A g \in runners : ~gres[g].failure /\ (gres[g].success <=> HasCase(g))
        /\ \A c \in 1..Size : IsCase(c) => cres[c].success /\ ~cres[c].failure

C5_Witness ==
    /\ Delivered /\ RootCompletedWithResult /\ PureSuccess
    /\ cbCalls[1].success
    /\ \E g \in runners \ {Root} : gres[g].success
    /\ \E c \in 1..Size : IsCase(c) /\ param[c].parent = Root

\* ---------------------------------------------------------------- failure
\* C6 (as stated): whenever some case of the tree has reported failure, the
\* value runAll delivers has failure = true.
C6_Original ==
    (Delivered /\ \E c \in 1..Size : IsCase(c) /\ first[c] = "failure")
        => cbCalls[1].failure /\ cbCalls[1].error = "result"

\* C6 (amended): whenever the first completion of some case, at any depth,
\* reported failure and the root completes with its result (not with the error
\* 'Empty test for <key>'), the value runAll delivers is the root with
\* failure = true, relabelled 'failure', however many siblings succeed.
C6_FailureDominates ==
    ( /\ Delivered
      /\ RootCompletedWithResult
      /\ \E c \in 1..Size : IsCase(c) /\ first[c] = "failure" )
        => /\ cbCalls[1].failure
           /\ ~cbCalls[1].success
           /\ cbCalls[1].error = "result"
           /\ cbCalls[1].key = "failure"

C6_Witness ==
    /\ Delivered
    /\ cbCalls[1].failure
    /\ \E c \in 1..Size : IsCase(c) /\ first[c] = "failure" /\ param[c].parent # Root
    /\ \E c \in 1..Size : IsCase(c) /\ first[c] = "success" /\ param[c].parent = Root

\* C7: group failure is sticky: once a GroupResult has failure = true, no
\* later add sets failure back to false or success to true.
C7_StickyFailure ==
    [][ \A g \in runners :
            gres[g].failure => (gres'[g].failure /\ ~gres'[g].success) ]_vars

\* a failed group to which a successful case was added after the failed one
C7_Witness ==
    \E g \in runners : \E c1, c2 \in 1..Size :
        /\ gres[g].failure
        /\ c1 < c2
        /\ param[c1].parent = g /\ param[c2].parent = g
        /\ first[c1] = "failure"
        /\ IsCase(c2) /\ cres[c2].success

\* ---------------------------------------------------------------- duplicates
\* arguments a completion handler can be invoked with
HandlerArgs ==
    {<<ErrE, Null>>, <<Null, ValV>>, <<Null, ValF>>, <<Null, Null>>, <<UncaughtMsg, Null>>}

\* this step invokes the handler of case c with (error, result)
InvokedWith(c, error, result) ==
    \/ Complete(c, error, result)
    \/ next = c /\ \E d \in Nodes : Settle(d, error, result)
    \/ next = c /\ error = UncaughtMsg /\ result = Null /\ (ThrowAsync \/ ThrowSync(FALSE))

\* C8 (as stated): a second invocation after a recorded success leaves the case
\* with failure = true and the message 'Duplicated call to callback', whatever
\* its arguments.
C8_Original ==
    [][ \A c \in 1..Size : \A a \in HandlerArgs :
            (cres[c].success /\ InvokedWith(c, a[1], a[2]))
                => (cres'[c].failure /\ cres'[c].message = DuplicatedMsg) ]_vars

\* C8 (amended): a second invocation after a recorded success leaves the case
\* with failure = true and success = false; the message is 'Duplicated call to
\* callback' when the invocation carries no error and a value without failure
\* marker, the error when it carries one, and the value when it is marked.
C8_DuplicateIsFailure ==
    [][ \A c \in 1..Size : \A a \in HandlerArgs :
            (cres[c].success /\ InvokedWith(c, a[1], a[2]))
                => /\ cres'[c].failure
                   /\ ~cres'[c].success
                   /\ cres'[c].message =
                         IF a[1] # Null THEN a[1]
                         ELSE IF a[2] = ValF THEN a[2] ELSE DuplicatedMsg ]_vars

C8_Witness ==
    \E c \in 1..Size :
        /\ first[c] = "success"
        /\ cres[c].failure
        /\ cres[c].message = DuplicatedMsg

\* C9 (as stated): after a duplicate completion the case has success and
\* failure both true.
C9_Original ==
    \A c \in 1..Size :
        (first[c] = "success" /\ cres[c].failure) => cres[c].success

\* C9 (amended): after a duplicate completion the case has failure = true and
\* success = false, and no result of the tree, case or group, ever has both
\* flags true.
C9_NeverBothFlags ==
    /\ \A c \in 1..Size :
           (first[c] = "success" /\ cres[c].failure) => ~cres[c].success
    /\ \A c \in Nodes : ~(cres[c].success /\ cres[c].failure)
    /\ \A g \in Groups : ~(gres[g].success /\ gres[g].failure)

C9_Witness ==
    \E c \in 1..Size :
        /\ first[c] = "success"
        /\ cres[c].failure
        /\ gres[param[c].parent].failure
        /\ \E d \in 1..Size : d # c /\ cres[d].success

\* C10: first failure wins: once a CaseResult has failure = true, further
\* invocations of its handler leave success, failure and message unchanged.
C10_FirstFailureWins ==
    [][ \A c \in 1..Size : cres[c].failure => cres'[c] = cres[c] ]_vars

\* a failed case whose handler was invoked again, by the case and by an exception
C10_Witness ==
    /\ Size = 1
    /\ cres[1].failure
    /\ first[1] = "failure"
    /\ called[1]
    /\ extra > 0
    /\ throws > 0

\* ---------------------------------------------------------------- empty mappings
\* a nested mapping without keys
EmptyGroup(g) == g \in 1..Size /\ param[g].kind = "object" /\ Children(g) = {}

\* C11: running an empty mapping delivers, as result and without error, a
\* GroupResult with success = false, failure = false and no children; the step
\* that adds a nested empty group to its parent leaves the parent's success
\* and failure unchanged.
C11_EmptyMapping ==
    /\ [](  (Size = 0 /\ started) =>
              /\ Len(cbCalls) = 1
              /\ cbCalls[1] = [error |-> Null, result |-> "result", key |-> "main",
                               success |-> FALSE, failure |-> FALSE]
              /\ gres[Root].results = {} )
    /\ [][ \A g \in 1..Size :
             (EmptyGroup(g) /\ contCalls[g] = 0 /\ contCalls'[g] = 1) =>
                 /\ <<param[g].key, g>> \in gres'[param[g].parent].results
                 /\ gres'[g].results = {}
                 /\ ~gres'[g].success /\ ~gres'[g].failure
                 /\ gres'[param[g].parent].success = gres[param[g].parent].success
                 /\ gres'[param[g].parent].failure = gres[param[g].parent].failure ]_vars

\* an empty group was added to a parent that already had a success
C11_Witness ==
    \E g \in 1..Size :
        /\ EmptyGroup(g)
        /\ contCalls[g] = 1
        /\ <<param[g].key, g>> \in gres[param[g].parent].results
        /\ gres[param[g].parent].success
        /\ Len(cbCalls) = 1

\* ---------------------------------------------------------------- sequencing
\* case c has been dispatched and its completion handler not yet invoked
InFlight(c) == c \in 1..Size /\ dispatched[c] > 0 /\ ~cres[c].finished

\* C12: at most one function case is in flight at any instant: a step that
\* dispatches a case finds the completion handler of every case dispatched
\* before it already invoked, and no case is dispatched twice.
C12_OneCaseInFlight ==
    /\ [](Cardinality({ c \in 1..Size : InFlight(c) }) <= 1)
    /\ [][ \A d \in 1..Size :
             dispatched'[d] > dispatched[d] =>
                 /\ dispatched[d] = 0
                 /\ \A c \in 1..Size : dispatched[c] > 0 => cres[c].finished ]_vars

\* a second case was dispatched after the handler of the first was invoked by
\* an uncaught exception, and the first case then invoked its handler itself
C12_Witness ==
    \E c, d \in 1..Size :
        /\ c # d
        /\ first[c] = "failure" /\ cres[c].message = UncaughtMsg
        /\ called[c]
        /\ InFlight(d)

\* the function cases below group g, at any depth
CasesBelow(g) == { c \in 1..Size : IsCase(c) /\ g \in (Ancestors(Parents, c) \ {c}) }

\* the Runner of the parent of k has taken key k out of its loop
Reached(k) ==
    LET p == param[k].parent
        kind == ValueKind(k)
    IN  CASE kind \in {"function", "async"} -> dispatched[k] > 0
          [] kind = "object" -> k \in runners
          [] kind = "string" -> p \in runners /\ k \notin series[p]
          [] OTHER -> /\ p \in runners /\ contError[p] = EmptyTestMsg
                      /\ k = FirstKey(series[p])

\* C13: function cases are dispatched depth-first in the iteration order of the
\* keys: a dispatched case finds every case before it in that order dispatched
\* and completed, and when a parent reaches the key that follows a nested group
\* every case below the group has been dispatched and the group's result has
\* been added to the parent.
C13_DepthFirstOrder ==
    /\ \A c, d \in 1..Size :
           (IsCase(c) /\ IsCase(d) /\ c < d /\ dispatched[d] > 0)
               => (dispatched[c] > 0 /\ cres[c].finished)
    /\ \A g, k \in 1..Size :
           ( /\ param[g].kind = "object"
             /\ param[k].parent = param[g].parent
             /\ g < k
             /\ Reached(k) )
               => /\ rfinished[g]
                  /\ <<param[g].key, g>> \in gres[param[g].parent].results
                  /\ \A c \in CasesBelow(g) : dispatched[c] > 0 /\ cres[c].finished

\* the parent dispatched the case that follows a nested group holding a case
C13_Witness ==
    \E g, k \in 1..Size :
        /\ param[g].kind = "object"
        /\ param[k].parent = param[g].parent
        /\ g < k
        /\ IsCase(k) /\ dispatched[k] > 0
        /\ CasesBelow(g) # {}

\* ---------------------------------------------------------------- failures and siblings
\* a deferred runOne of group g is pending
InDeferred(g) == \E i \in 1..Len(deferred) : deferred[i] = g

\* C14: a case that reports failure does not halt its siblings: once its
\* handler was invoked with an error the group's next step is deferred, and
\* when that step has run the next remaining key of the same mapping has been
\* taken (the group completed if no truthy value remains); the result of every
\* completed sibling is recorded in the same group.
C14_FailureDoesNotHalt ==
    \A c \in 1..Size :
        (IsCase(c) /\ first[c] = "failure") =>
            LET g == param[c].parent
                later == { k \in Children(g) : k > c }
            IN  /\ \/ InDeferred(g)
                   \/ IF isEmpty(later) THEN rfinished[g] ELSE Reached(FirstKey(later))
                /\ <<TestName(c), c>> \in gres[g].results
                /\ \A k \in later :
                       (IsCase(k) /\ cres[k].finished) => <<TestName(k), k>> \in gres[g].results

\* after a case failed with an error its next sibling ran and succeeded
C14_Witness ==
    \E c, k \in 1..Size :
        /\ IsCase(c) /\ IsCase(k)
        /\ param[c].parent = param[k].parent
        /\ c < k
        /\ first[c] = "failure" /\ cres[c].message = ErrE
        /\ cres[k].success
        /\ <<TestName(k), k>> \in gres[param[k].parent].results

\* ---------------------------------------------------------------- uncaught exceptions
\* the process emits an exception nobody caught to the installed listener
UncaughtStep == ThrowAsync \/ ThrowSync(FALSE)

\* C15: while a run is in progress an uncaught exception is delivered to the
\* handler of the most recently dispatched case as 'Uncaught exception:
\* <stack>': a case that had not failed becomes a failure with that message, a
\* failed case is left as it was, no other case changes, and if the case had
\* not completed its key is deleted and the next step of its group deferred.
C15_UncaughtGoesToLastCase ==
    [][ (UncaughtStep /\ listeners > 0 /\ next # NoCase) =>
          LET c == next
              g == param[next].parent
          IN  /\ ~cres[c].failure =>
                     /\ cres'[c].failure /\ ~cres'[c].success
                     /\ cres'[c].message = UncaughtMsg
              /\ cres[c].failure => cres'[c] = cres[c]
              /\ \A d \in Nodes \ {c} : cres'[d] = cres[d]
              /\ <<TestName(c), c>> \in gres'[g].results
              /\ ~cres[c].finished =>
                     /\ c \in series[g] /\ c \notin series'[g]
                     /\ deferred' = Append(deferred, g)
              /\ cres[c].finished => (series' = series /\ deferred' = deferred) ]_vars

\* an exception failed the pending case and the scheduler dispatched its sibling
C15_Witness ==
    \E c, k \in 1..Size :
        /\ IsCase(c) /\ IsCase(k)
        /\ param[c].parent = param[k].parent
        /\ c < k
        /\ first[c] = "failure" /\ cres[c].message = UncaughtMsg
        /\ ~called[c] /\ ~settled[c]
        /\ dispatched[k] > 0

\* ---------------------------------------------------------------- zero-argument cases
IsAsync(c) == c \in 1..Size /\ param[c].kind = "async"

\* C16 (as stated): in a run without exceptions, a zero-argument case whose
\* deferred value rejects is recorded as a failure whose message is the
\* rejection reason, whatever the reason, and one whose deferred value
\* resolves is recorded as a success with the resolved value.
C16_Original ==
    \A c \in 1..Size :
        (IsAsync(c) /\ throws = 0) =>
            /\ outcome[c].how = "rejected" =>
                   (cres[c].failure /\ cres[c].message = outcome[c].value)
            /\ outcome[c].how = "resolved" =>
                   (cres[c].success /\ cres[c].message = outcome[c].value)

\* C16 (what the code does): in a run without exceptions, a rejection with a
\* truthy reason is recorded as a failure with the reason as message, and a
\* resolution with a value without failure marker as a success with the value;
\* a rejection with a falsy reason is recorded as a success with no message,
\* and a resolution with a value carrying a failure marker as a failure.
C16_SettlementAsCoded ==
    \A c \in 1..Size :
        (IsAsync(c) /\ throws = 0 /\ outcome[c].how # "pending") =>
            /\ cres[c].message = outcome[c].value
            /\ cres[c].finished
            /\ cres[c].failure <=>
                   \/ outcome[c].how = "rejected" /\ outcome[c].value # Null
                   \/ outcome[c].how = "resolved" /\ outcome[c].value = ValF
            /\ cres[c].success <=> ~cres[c].failure

\* a rejection without reason was recorded as a success and delivered as such
C16_Witness ==
    \E c \in 1..Size :
        /\ IsAsync(c)
        /\ throws = 0
        /\ outcome[c] = [how |-> "rejected", value |-> Null]
        /\ cres[c].success
        /\ Delivered /\ cbCalls[1].success /\ cbCalls[1].error = Null

\* ---------------------------------------------------------------- exceptions and runAll
\* C17 (as stated): no exception escapes from a call to runAll, whatever a
\* case does, the first case throwing synchronously included.
C17_Original == ~escaped

\* ---------------------------------------------------------------- running a definition again
\* runAll(param, callback) is called again with the same definition, once the
\* earlier run has finished or stalled
Rerun ==
    /\ Stalled
    /\ run < MaxRuns
    /\ cloned' = clone(original)
    /\ LET s0 == [State EXCEPT
                     !.series = clone(original).keys,
                     !.listeners = @ + 1,
                     !.runners = {Root},
                     !.rfinished = [g \in Groups |-> FALSE],
                     !.contCalls = [g \in Groups |-> 0],
                     !.contError = [g \in Groups |-> Null],
                     !.dispatched = [c \in Nodes |-> 0],
                     !.first = [c \in Nodes |-> "none"],
                     !.added = [g \in Groups |-> {}],
                     !.next = IF @ = NoCase THEN NoCase ELSE Stale,
                     !.run = @ + 1,
                     !.born[Root] = run + 1,
                     !.gres[Root] = CompositeStart(NewCompositeResult(GroupKey(Root)))]
           s1 == runOne(s0, Root)
       IN  /\ Install(s1)
           /\ inCall' = (s1.next \notin {NoCase, Stale})
    /\ called' = [c \in Nodes |-> FALSE]
    /\ settled' = [c \in Nodes |-> FALSE]
    /\ outcome' = [c \in Nodes |-> Pending]
    /\ casesDone' = FALSE
    /\ UNCHANGED <<apiVars, timerVars, param, started, escaped, extra, throws>>

RerunInit == Init /\ Size <= MaxRerunNodes

RerunNext == Next \/ Rerun

RerunSpec == RerunInit /\ [][RerunNext]_vars

\* the result of node n hangs in the result tree of the current run
InResultTree(n) ==
    \A a \in Ancestors(Parents, n) \ {Root} :
        \E p \in gres[param[a].parent].results : p[2] = a

\* C18: runAll never mutates the caller's tree: in every run, finished or
\* stalled, the caller's mappings keep their keys and values at every level,
\* so every later run of the same definition starts from the same copy, and
\* every result in its result tree was constructed in that run.
C18_TreeNotMutated ==
    /\ [](\A g \in Groups : original[g] = Children(g))
    /\ [][param' = param]_vars
    /\ [](run >= 1 => cloned = clone([g \in Groups |-> Children(g)]))
    /\ [](run >= 1 =>
            /\ born[Root] = run
            /\ \A n \in 1..Size : InResultTree(n) => born[n] = run)

\* a second run of a nested definition delivered its own result tree after
\* the first run had deleted every key of its copy
C18_Witness ==
    /\ run = 2
    /\ Len(cbCalls) = 2
    /\ \E g, c \in 1..Size :
           /\ param[g].kind = "object" /\ param[c].parent = g /\ IsCase(c)
           /\ InResultTree(c)
           /\ cres[c].finished
           /\ born[c] = 2
           /\ series[g] = {}

\* ---------------------------------------------------------------- clone
LeavesAreFunctionsOrStrings ==
    \A i \in 1..Size : param[i].kind \in {"object", "function", "async", "string"}

\* C19: for a tree whose leaves are functions or strings, clone returns a
\* mapping with the same keys at every level, in which each function or string
\* is the original's value and each nested mapping is a new object.
C19_CloneKeepsLeaves ==
    (LeavesAreFunctionsOrStrings /\ run >= 1) =>
        /\ \A g \in Groups : cloned.keys[g] = Children(g)
        /\ \A i \in 1..Size :
               /\ cloned.kind[i] = param[i].kind
               /\ cloned.ref[i] = IF param[i].kind = "object" THEN "new" ELSE "same"

\* a tree with a string, and a function inside a nested mapping, was cloned
C19_Witness ==
    /\ LeavesAreFunctionsOrStrings
    /\ run >= 1
    /\ \E g, c, t \in 1..Size :
           /\ param[g].kind = "object" /\ param[c].parent = g /\ IsCase(c)
           /\ param[t].kind = "string"
           /\ cloned.ref[g] = "new" /\ cloned.ref[c] = "same" /\ cloned.ref[t] = "same"
           /\ c \in cloned.keys[g]

\* ---------------------------------------------------------------- names of results
NamedInit == param \in NamedTrees /\ Start /\ NoTimer

NamedSpec == NamedInit /\ [][Next]_vars

\* C20: the result of a function case is stored under the function's own name
\* when its key is numeric and the function has a non-empty name, and under
\* the key itself in every other case: the step that first invokes the case's
\* handler adds its result to the group under that name and no other.
C20_StoredUnderName ==
    [][ \A c \in 1..Size :
          (IsCase(c) /\ first[c] = "none" /\ first'[c] # "none") =>
              LET name == IF param[c].index /\ param[c].fname # ""
                          THEN param[c].fname ELSE param[c].key
                  stored == gres'[param[c].parent].results
              IN  /\ cres'[c].key = name
                  /\ <<name, c>> \in stored
                  /\ \A p \in stored : p[2] = c => p[1] = name ]_vars

\* an array of an anonymous and a named function: the results are stored
\* under the index of the first and the name of the second
C20_Witness ==
    /\ Size = 2
    /\ param[1].index /\ param[1].fname = ""
    /\ param[2].index /\ param[2].fname = "two"
    /\ param[1].parent = Root /\ param[2].parent = Root
    /\ gres[Root].results = {<<"1", 1>>, <<"two", 2>>}
    /\ cres[2].success

\* ---------------------------------------------------------------- testing.run
MaxTimedNodes == 2      \* values in the trees given to testing.run
GivenTimeout == 500     \* an explicit timeout, in milliseconds
MsPerTest == 1000       \* the default: one second per test
TimeoutMsg == "Package tests did not call back"

\* the timeouts a caller gives: none (or the callback in second position), or one
TimeoutArgs == {0, GivenTimeout}

\* `tests = [tests]`: a single function becomes the only entry, index 0, of an array
BareTrees ==
    { << [parent |-> Root, kind |-> k, key |-> "0", index |-> TRUE, fname |-> fn] >>
        : k \in {"function", "async"}, fn \in FunctionNames }

TimedInit ==
    /\ bare \in BOOLEAN
    /\ timeoutArg \in TimeoutArgs
    /\ param \in IF bare THEN BareTrees
                 ELSE UNION { TreesOfSize(n) : n \in 0..MaxTimedNodes }
    /\ Start
    /\ timeout = 0
    /\ timedOut = FALSE

\* a count that includes the entries of nested mappings
nTests_AllLevels == Size

\* the loop of run over the own keys of tests
nTests == Cardinality(Children(Root))

\* testing.run(tests, timeout, callback): sets the timer and calls runAll
Run ==
    /\ timeout' = IF timeoutArg # 0 THEN timeoutArg ELSE MsPerTest * nTests
    /\ UNCHANGED <<bare, timeoutArg, timedOut>>
    /\ RunAllCall

\* the timer set by run fires: it was not cleared by the completion of runAll,
\* and no function is running
Timeout ==
    /\ started
    /\ ~inCall
    /\ ~timedOut
    /\ Len(cbCalls) = 0
    /\ timedOut' = TRUE
    /\ UNCHANGED <<apiVars, bare, timeoutArg, timeout>>
    /\ UNCHANGED <<param, started, inCall, escaped, series, runners, rfinished, gres, cres,
                   next, deferred, listeners, cbCalls, contCalls, contError, dispatched,
                   called, settled, outcome, extra, throws, first, casesDone, late,
                   original, cloned, run, born, added>>

TimedNext ==
    \/ Run
    \/ Timeout
    \/ Return
    \/ \E c \in Nodes : \E a \in {<<ErrE, Null>>, <<Null, ValV>>, <<Null, ValF>>} :
          Complete(c, a[1], a[2])
    \/ \E c \in Nodes : \E a \in {<<ErrE, Null>>, <<Null, ValV>>, <<Null, ValF>>, <<Null, Null>>} :
          Settle(c, a[1], a[2])
    \/ \E caught \in BOOLEAN : ThrowSync(caught)
    \/ ThrowAsync
    \/ RunDeferred
    \/ CasesStop

TimedSpec == TimedInit /\ [][TimedNext]_vars

\* the invocations of the callback given to testing.run, in order: the timer's,
\* which can only come first, then one for each invocation by runAll of the
\* function run passed to it
RunCalls ==
    (IF timedOut THEN << [error |-> TimeoutMsg, result |-> "undefined"] >> ELSE << >>)
    \o [i \in 1..Len(cbCalls) |-> [error |-> cbCalls[i].error, result |-> cbCalls[i].result]]

\* C21 (as stated): testing.run invokes its callback exactly once, with the
\* run's outcome or with 'Package tests did not call back': never twice, and
\* after the timer has fired a completion of the run is discarded.
C21_Original ==
    /\ Len(RunCalls) <= 1
    /\ timedOut => RunCalls = << [error |-> TimeoutMsg, result |-> "undefined"] >>

\* C22: testing.run uses the explicit timeout when one is given and non-zero;
\* otherwise 1000 ms times the number of top-level entries of tests, which is
\* 1 for a single function.
C22_TimeoutValue ==
    started =>
        /\ timeout = IF timeoutArg # 0
                     THEN timeoutArg
                     ELSE MsPerTest * Cardinality({ i \in 1..Size : param[i].parent = Root })
        /\ (bare /\ timeoutArg = 0) => timeout = MsPerTest

\* a mapping whose only entry is a nested mapping with an entry of its own,
\* run without timeout
C22_Witness ==
    /\ started
    /\ ~bare
    /\ timeoutArg = 0
    /\ Size = 2 /\ param[2].parent = 1
    /\ timeout = MsPerTest

\* ---------------------------------------------------------------- first completion
\* C23: on a CaseResult that has not completed, callback(error, value) yields
\* failure with message = error when error is truthy; otherwise failure with
\* message = value when value has a truthy failure field; otherwise success
\* with message = value; in all three cases finished becomes true.
C23_FirstCompletion ==
    [][ \A c \in 1..Size : \A a \in HandlerArgs :
            (dispatched[c] > 0 /\ ~cres[c].finished /\ InvokedWith(c, a[1], a[2]))
                => /\ cres'[c].finished
                   /\ cres'[c].failure = (a[1] # Null \/ a[2] = ValF)
                   /\ cres'[c].success = ~cres'[c].failure
                   /\ cres'[c].message =
                         IF a[1] # Null THEN a[1] ELSE a[2] ]_vars

\* three cases completed once each: with an error, with a value carrying a
\* failure marker, with a plain value
C23_Witness ==
    /\ extra = 0 /\ throws = 0
    /\ \E c1, c2, c3 \in 1..Size :
          /\ cres[c1].finished /\ cres[c1].failure /\ cres[c1].message = ErrE
          /\ cres[c2].finished /\ cres[c2].failure /\ cres[c2].message = ValF
          /\ cres[c3].finished /\ cres[c3].success /\ cres[c3].message = ValV

\* ---------------------------------------------------------------- sequences of add
\* C24: after any sequence of add calls on a GroupResult, failure is true iff
\* at least one added child had failure true when added, and success is true
\* iff no added child had failure and at least one added child had success.
C24_FlagsOfAddSequence ==
    \A g \in runners :
        /\ gres[g].failure = (\E f \in added[g] : f[2])
        /\ gres[g].success = ((\A f \in added[g] : ~f[2]) /\ (\E f \in added[g] : f[1]))

\* a group that received a result without flags, a successful one and then a
\* failed one
C24_Witness ==
    \E g \in runners :
        /\ added[g] = {<<FALSE, FALSE>>, <<TRUE, FALSE>>, <<FALSE, TRUE>>}
        /\ \E c1, c2 \in Children(g) :
              c1 < c2 /\ first[c1] = "success" /\ first[c2] = "failure"

\* ---------------------------------------------------------------- falsy values
\* the Runner of g has completed and the first key left in its mapping, the
\* one its last runOne looked at, holds a falsy value
StoppedAtFalsy(g) ==
    /\ g \in runners
    /\ rfinished[g]
    /\ series[g] # {}
    /\ ~Truthy(ValueKind(FirstKey(series[g])))

\* the continuation of g received the error 'Empty test for <key>' and no
\* result; at the root so did the caller's callback
CompletedWithEmptyTest(g) ==
    /\ contCalls[g] = 1
    /\ contError[g] = EmptyTestMsg
    /\ g = Root => /\ Len(cbCalls) >= 1
                   /\ cbCalls[1].error = EmptyTestMsg
                   /\ cbCalls[1].result = "undefined"

\* C25 (as stated): whenever the key the scheduler reaches holds a falsy value,
\* whatever its position in the mapping, the node completes with the hard
\* error 'Empty test for <key>' and without a result.
C25_Original ==
    \A g \in Groups : StoppedAtFalsy(g) => CompletedWithEmptyTest(g)

\* C25 (as coded): a node whose scheduler reaches a falsy value completes with
\* 'Empty test for <key>' and without a result when a truthy value is left in
\* its mapping, and completes normally, with its result and without error,
\* when every value left is falsy.
C25_EmptyTestWhenTruthyRemains ==
    \A g \in Groups :
        StoppedAtFalsy(g) =>
            IF \E j \in series[g] : Truthy(ValueKind(j))
            THEN CompletedWithEmptyTest(g)
            ELSE /\ contCalls[g] = 1
                 /\ contError[g] = Null
                 /\ g = Root => cbCalls[1].result = "result" \/ cbCalls[1].error = "result"

\* a group that ran a case and then stopped at a falsy value followed by a
\* truthy one
C25_Witness ==
    \E g \in Groups :
        /\ StoppedAtFalsy(g)
        /\ CompletedWithEmptyTest(g)
        /\ \E c \in Children(g) : c < FirstKey(series[g]) /\ first[c] # "none"

\* ---------------------------------------------------------------- structural errors
\* no entry left in the mapping of g has been dispatched or entered
RemainderUntouched(g) ==
    \A j \in series[g] :
        /\ j \notin runners
        /\ IsCase(j) => dispatched[j] = 0

\* C26: after a node completes with the structural error 'Empty test for
\* <key>', no later sibling of that node is ever dispatched, and at the root
\* the callback receives the error with no result, the results of the siblings
\* already run not being delivered.
C26_StructuralErrorAborts ==
    /\ [](\A g \in runners :
            contError[g] = EmptyTestMsg =>
                /\ RemainderUntouched(g)
                /\ \A i \in 1..Len(deferred) : deferred[i] # g
                /\ g = Root => /\ Len(cbCalls) = 1
                               /\ cbCalls[1].error = EmptyTestMsg
                               /\ cbCalls[1].result = "undefined")
    /\ [][ \A g \in runners :
              contError[g] = EmptyTestMsg =>
                  /\ series'[g] = series[g]
                  /\ contError'[g] = EmptyTestMsg ]_vars

\* the root ran a case, stopped at a falsy value and left a case behind it;
\* the cases have nothing more to do
C26_Witness ==
    /\ Size = 3
    /\ contError[Root] = EmptyTestMsg
    /\ first[1] = "success"
    /\ series[Root] = {2, 3}
    /\ IsCase(3) /\ dispatched[3] = 0
    /\ Stalled

\* ---------------------------------------------------------------- errors of nested groups
\* the trees in which a nested mapping with two entries or more is followed by
\* a sibling
NestedTrees ==
    { t \in TreesOfSize(MaxNestedNodes) :
        \E g, j \in 1..MaxNestedNodes :
            /\ t[g].kind = "object"
            /\ g < j /\ t[j].parent = t[g].parent
            /\ \E a, b \in 1..MaxNestedNodes : a # b /\ t[a].parent = g /\ t[b].parent = g }

NestedInit == param \in NestedTrees /\ Start /\ NoTimer

NestedSpec == NestedInit /\ [][Next]_vars

\* C27: when a nested group completes with a hard error, the parent neither
\* adds the child's result nor advances: the group's key stays in the parent's
\* remaining mapping, no later sibling is dispatched, and neither the parent's
\* continuation nor runAll's callback is ever invoked.
C27_NestedErrorAbandons ==
    \A g \in runners \ {Root} :
        (contCalls[g] > 0 /\ contError[g] # Null) =>
            LET p == param[g].parent
            IN  /\ g \in series[p]
                /\ \A r \in gres[p].results : r[2] # g
                /\ \A j \in series[p] \ {g} : j \notin runners /\ (IsCase(j) => dispatched[j] = 0)
                /\ \A i \in 1..Len(deferred) : deferred[i] # p
                /\ contCalls[p] = 0
                /\ cbCalls = << >>

\* a nested group stopped at a falsy value; the case that follows the group in
\* its parent was never dispatched and the cases have nothing more to do
C27_Witness ==
    \E g \in runners \ {Root} : \E j \in Children(param[g].parent) :
        /\ contError[g] = EmptyTestMsg
        /\ g < j /\ IsCase(j) /\ dispatched[j] = 0
        /\ Stalled

\* ---------------------------------------------------------------- invalid values
\* node k holds a non-empty string in the copy its Runner works on
IsSkipped(k) == k \in 1..Size /\ ValueKind(k) = "string"

\* C28: a key whose value is neither falsy, a mapping nor a function (a
\* non-empty string after cloning) is skipped: no result is recorded for it,
\* the group's success and failure flags are unchanged, the key is removed and
\* the next remaining key is dispatched (a step is deferred for the group,
\* which takes the first key that remains).
C28_InvalidValueSkipped ==
    /\ [](\A k \in 1..Size :
            IsSkipped(k) =>
                /\ \A r \in gres[param[k].parent].results : r[2] # k
                /\ cres[k] = NewTestResult(Null)
                /\ dispatched[k] = 0)
    /\ [][ \A k \in 1..Size :
              LET g == param[k].parent
              IN  (IsSkipped(k) /\ k \in series[g] /\ k \notin series'[g]) =>
                      /\ k = FirstKey(series[g])
                      /\ series'[g] = series[g] \ {k}
                      /\ gres'[g].success = gres[g].success
                      /\ gres'[g].failure = gres[g].failure
                      /\ deferred' # << >>
                      /\ deferred'[Len(deferred')] = g ]_vars

\* a string that was skipped after a successful case and before another case,
\* which was dispatched in its turn
C28_Witness ==
    \E k, b, c \in 1..Size :
        /\ IsSkipped(k)
        /\ b < k /\ k < c
        /\ param[b].parent = param[k].parent /\ param[c].parent = param[k].parent
        /\ first[b] = "success"
        /\ k \notin series[param[k].parent]
        /\ IsCase(c) /\ dispatched[c] = 1
        /\ gres[param[k].parent].success

\* ---------------------------------------------------------------- at most once
\* C29: each function case of the tree is invoked at most once per run: a
\* completion handler invoked for a key already removed from the remaining
\* mapping schedules no further step, so duplicate completions never dispatch
\* a case twice nor skip a case.
C29_InvokedAtMostOnce ==
    /\ [](\A c \in 1..Size :
            IsCase(c) =>
                /\ dispatched[c] <= 1
                /\ (started /\ param[c].parent \in runners /\ c \notin series[param[c].parent])
                       => dispatched[c] = 1)
    /\ [][ \A c \in 1..Size : \A a \in HandlerArgs :
              (dispatched[c] > 0 /\ c \notin series[param[c].parent]
                    /\ InvokedWith(c, a[1], a[2]))
                  => /\ deferred' = deferred
                     /\ series' = series
                     /\ dispatched' = dispatched ]_vars

\* a case completed twice before the deferred step ran; the case after it was
\* dispatched once and the one after that was reached as well
C29_Witness ==
    /\ Size = 3
    /\ \A c \in 1..3 : IsCase(c) /\ param[c].parent = Root /\ dispatched[c] = 1
    /\ cres[1].message = DuplicatedMsg
    /\ extra = MaxDup
    /\ first[2] = "success"

\* ---------------------------------------------------------------- stalled cases
\* the function of case c has been invoked and its completion handler has not
\* been invoked, neither by the case nor for an uncaught exception
AwaitingHandler(c) == IsCase(c) /\ dispatched[c] > 0 /\ first[c] = "none"

\* C30: if a dispatched case never invokes its completion handler and no
\* uncaught exception occurs, no later case of the tree is ever dispatched and
\* runAll never invokes the caller's callback: as long as the handler has not
\* been invoked the run stays where it is.
C30_StalledCaseStallsRun ==
    \A c \in 1..Size :
        AwaitingHandler(c) =>
            /\ next = c
            /\ c \in series[param[c].parent]
            /\ deferred = << >>
            /\ \A d \in 1..Size : (IsCase(d) /\ d > c) => dispatched[d] = 0
            /\ cbCalls = << >>

\* the second case never called back: the third was not dispatched and the run
\* is over as far as the cases are concerned
C30_Witness ==
    /\ Size = 3
    /\ \A c \in 1..3 : IsCase(c) /\ param[c].parent = Root
    /\ first[1] = "success"
    /\ AwaitingHandler(2)
    /\ dispatched[3] = 0
    /\ throws = 0
    /\ Stalled
    /\ cbCalls = << >>

\* ---------------------------------------------------------------- the delivered tree
\* C31 (as stated): after runAll has invoked the caller's callback, no field of
\* any CaseResult or GroupResult of the delivered tree changes, whatever the
\* cases do afterwards.
C31_Original ==
    [][ Len(cbCalls) >= 1 => (cres' = cres /\ gres' = gres) ]_vars

\* C31 (as coded): after runAll has invoked the caller's callback the results
\* of the delivered tree can still change, in one way only: a late invocation
\* of a handler turns a successful CaseResult into a failed one, and the
\* groups it is added to again become failed; entries and keys stay.
C31_LateChangesOnlyFail ==
    [][ Len(cbCalls) >= 1 =>
          /\ \A c \in Nodes :
                \/ cres'[c] = cres[c]
                \/ cres[c].success /\ cres'[c].failure /\ ~cres'[c].success
                      /\ cres'[c].key = cres[c].key
          /\ \A g \in Groups :
                \/ gres'[g] = gres[g]
                \/ gres'[g].failure /\ ~gres'[g].success
                      /\ gres'[g].results = gres[g].results
                      /\ gres'[g].key = gres[g].key ]_vars

\* the caller received a successful root, which has since become a failure
C31_Witness ==
    /\ Len(cbCalls) = 1
    /\ cbCalls[1].error = Null
    /\ cbCalls[1].success
    /\ gres[Root].failure /\ ~gres[Root].success
    /\ late > 0

\* ---------------------------------------------------------------- listeners
\* calls of runAll whose root has not completed: each call delivers at most once
OpenRuns == run - Len(cbCalls)

\* C32: runAll installs one uncaughtException listener before dispatching any
\* case and removes one when the root completes: at every instant the number
\* of installed listeners equals the number of runAll invocations not yet
\* completed, and it is zero once all have completed.
C32_ListenersMatchOpenRuns ==
    /\ listeners = OpenRuns
    /\ (\E c \in 1..Size : dispatched[c] > 0 /\ ~rfinished[Root]) => listeners >= 1
    /\ (run >= 1 /\ Len(cbCalls) = run) => listeners = 0

\* two runs of a definition with a case, both completed: no listener is left
C32_Witness ==
    /\ run = 2
    /\ Len(cbCalls) = 2
    /\ listeners = 0
    /\ \E c \in 1..Size : cres[c].finished

\* ---------------------------------------------------------------- CompositeResult used directly
\* keys and flags of the results a caller adds to its CompositeResult
ChildKeys == {"a", "b", "c", "d"}
ChildFlags == {<<FALSE, FALSE>>, <<TRUE, FALSE>>, <<FALSE, TRUE>>}

\* obj.start()
ApiStart ==
    /\ obj' = CompositeStart(obj)
    /\ thrown' = Null
    /\ UNCHANGED <<timerVars, param, started, inCall, escaped, series, runners, rfinished, gres,
                   cres, next, deferred, listeners, cbCalls, contCalls, contError, dispatched,
                   called, settled, outcome, extra, throws, first, casesDone, late,
                   original, cloned, run, born, added>>

\* obj.add(result) for a result with key k and flags f
ApiAdd(k, f) ==
    /\ obj' = CompositeAdd(obj, k, 0, f[1], f[2])
    /\ thrown' = Null
    /\ UNCHANGED <<timerVars, param, started, inCall, escaped, series, runners, rfinished, gres,
                   cres, next, deferred, listeners, cbCalls, contCalls, contError, dispatched,
                   called, settled, outcome, extra, throws, first, casesDone, late,
                   original, cloned, run, born, added>>

\* obj.finish()
ApiFinish ==
    /\ obj' = CompositeFinish(obj)
    /\ thrown' = IF FinishThrows(obj) THEN MissingStartMsg ELSE Null
    /\ UNCHANGED <<timerVars, param, started, inCall, escaped, series, runners, rfinished, gres,
                   cres, next, deferred, listeners, cbCalls, contCalls, contError, dispatched,
                   called, settled, outcome, extra, throws, first, casesDone, late,
                   original, cloned, run, born, added>>

ResultInit == param = << >> /\ Start /\ NoTimer

ResultNext ==
    \/ ApiStart
    \/ \E k \in ChildKeys : \E f \in ChildFlags : ApiAdd(k, f)
    \/ ApiFinish

ResultSpec == ResultInit /\ [][ResultNext]_vars

\* C33 (as stated): finish() called without a prior start() fails with a fatal
\* error ('Missing start time') and does not set the elapsed time.
C33_Original ==
    [][ (ApiFinish /\ ~obj.started) =>
            (thrown' = MissingStartMsg /\ obj'.elapsed = obj.elapsed) ]_vars

\* C33 (as coded): finish() never throws: called without a prior start() it
\* sets the elapsed time like any other call.
C33_FinishNeverThrows ==
    [][ ApiFinish => (thrown' = Null /\ obj'.elapsed) ]_vars

\* a CompositeResult that was finished and never started
C33_Witness == obj.elapsed /\ ~obj.started /\ thrown = Null

\* ---------------------------------------------------------------- clone of other values
\* node i holds a value that is neither a mapping, a function nor a string:
\* clone() is called on it and finds typeof series != 'object'
NotAMapping(i) == i \in 1..Size /\ param[i].kind = "number"

\* C34 (as stated): clone of a non-mapping value reports an error and returns
\* an empty mapping rather than throwing.
C34_Original ==
    \A i \in 1..Size :
        (run >= 1 /\ NotAMapping(i)) =>
            (cloned.kind[i] = "object" /\ cloned.keys[i] = {})

\* C34 (amended): clone of a non-mapping value reports an error and returns
\* undefined, not an empty mapping, and does not throw: the copy holds
\* undefined under the key of such a value, which no Runner enters as a group.
C34_CloneReturnsUndefined ==
    \A i \in 1..Size :
        (run >= 1 /\ NotAMapping(i)) =>
            /\ cloned.kind[i] = "undefined"
            /\ cloned.ref[i] = "none"
            /\ ~Truthy(ValueKind(i))
            /\ i \notin runners
            /\ throws = 0 => ~escaped

\* a mapping holding a number before a function was run: the root stopped at
\* the key of the number, which holds undefined in the copy
C34_Witness ==
    /\ run >= 1
    /\ \E i, c \in Children(Root) :
          /\ NotAMapping(i) /\ IsCase(c) /\ i < c
          /\ cloned.kind[i] = "undefined"
          /\ contError[Root] = EmptyTestMsg

\* ---------------------------------------------------------------- isEmpty
\* C35 (as stated): isEmpty(object) returns true exactly when the object has
\* no keys, and false whenever it has at least one key.
C35_Original ==
    \A g \in runners : isEmpty(series[g]) = (series[g] = {})

\* C35 (as coded): isEmpty(object) returns true exactly when no key of the
\* object holds a truthy value: an object whose keys all hold undefined is
\* reported empty.
C35_EmptyIffNoTruthyValue ==
    \A g \in runners :
        isEmpty(series[g]) = (\A i \in series[g] : cloned.kind[i] = "undefined")

\* a Runner found its mapping empty while it held a key, and completed
C35_Witness ==
    \E g \in runners :
        /\ series[g] # {}
        /\ isEmpty(series[g])
        /\ contCalls[g] = 1 /\ contError[g] = Null

\* ---------------------------------------------------------------- consistency of the delivered tree
\* the flags of the result of node n, a case or a nested group, given the
\* results gr of the groups and cr of the cases
ResultOf(gr, cr, n) ==
    IF IsCase(n)
    THEN [success |-> cr[n].success, failure |-> cr[n].failure]
    ELSE [success |-> gr[n].success, failure |-> gr[n].failure]

\* group g agrees with the entries of its results
ConsistentGroup(gr, cr, g) ==
    LET entries == { ResultOf(gr, cr, r[2]) : r \in gr[g].results }
    IN  /\ gr[g].failure = (\E e \in entries : e.failure)
        /\ gr[g].success = ((\A e \in entries : ~e.failure) /\ (\E e \in entries : e.success))

\* the groups of the tree that hangs from the root result in gr
DeliveredGroups(gr) ==
    { g \in Groups :
        \/ g = Root
        \/ /\ g \in 1..Size
           /\ param[g].kind = "object"
           /\ \A a \in Ancestors(Parents, g) \ {Root} :
                  \E r \in gr[param[a].parent].results : r[2] = a }

\* this step invokes the caller's callback with the root result
DeliversRoot ==
    /\ Len(cbCalls') = Len(cbCalls) + 1
    /\ "result" \in {cbCalls'[Len(cbCalls')].error, cbCalls'[Len(cbCalls')].result}

\* C36 (as stated): at the moment runAll delivers the root, every group of the
\* delivered tree is consistent with its children, also when a case of an
\* already finished nested group invoked its completion handler again while
\* the run was still in progress.
C36_Original ==
    [][ DeliversRoot =>
          \A g \in DeliveredGroups(gres') : ConsistentGroup(gres', cres', g) ]_vars

\* C36 (as coded): at the moment runAll delivers the root, every group of the
\* delivered tree is consistent with its children provided no handler was
\* invoked for a case whose group had already finished.
C36_ConsistentUnlessLate ==
    [][ (DeliversRoot /\ late' = 0) =>
          \A g \in DeliveredGroups(gres') : ConsistentGroup(gres', cres', g) ]_vars

\* a root delivered as a success that holds a failed group
C36_Witness ==
    /\ Len(cbCalls) = 1
    /\ cbCalls[1].error = Null /\ cbCalls[1].success
    /\ gres[Root].success
    /\ \E r \in gres[Root].results :
          /\ ~IsCase(r[2]) /\ gres[r[2]].failure
          /\ \E c \in Children(r[2]) : first[c] = "success" /\ cres[c].failure

\* ---------------------------------------------------------------- settlements and the global next
\* the settlements a deferred value can have, as arguments of the handler
SettleArgs == {<<ErrE, Null>>, <<Null, ValV>>, <<Null, ValF>>, <<Null, Null>>}

\* C37 (as stated): the settlement of a zero-argument case's deferred value is
\* recorded only on that case's own CaseResult, even if an uncaught exception
\* has completed the case before the value settled and a later case has been
\* dispatched meanwhile.
C37_Original ==
    [][ \A d \in 1..Size : \A a \in SettleArgs :
            Settle(d, a[1], a[2]) =>
                \A c \in Nodes \ {d} : cres'[c] = cres[c] ]_vars

\* C37 (as coded): the settlement of a zero-argument case's deferred value is
\* recorded on the CaseResult of the case dispatched last, whose handler the
\* global next holds: on its own as long as no later case has been dispatched.
C37_SettlementGoesToLastCase ==
    [][ \A d \in 1..Size : \A a \in SettleArgs :
            Settle(d, a[1], a[2]) =>
                /\ \A c \in Nodes \ {next} : cres'[c] = cres[c]
                /\ cres'[next].finished
                /\ ~cres[next].finished =>
                      cres'[next].failure = (a[1] # Null \/ a[2] = ValF) ]_vars

\* an uncaught exception completed a zero-argument case; its value settled
\* after the next case was dispatched and completed that case, which has
\* neither called back nor settled
C37_Witness ==
    \E d, c \in 1..Size :
        /\ d # c
        /\ IsAsync(d)
        /\ cres[d].message = UncaughtMsg
        /\ outcome[d].how # "pending"
        /\ cres[c].finished
        /\ ~called[c] /\ outcome[c].how = "pending"
        /\ throws = 1

\* ---------------------------------------------------------------- entries of a finished group
\* the children of group g that completed in it: cases whose handler was
\* invoked and nested groups that completed without error
CompletedIn(g) ==
    { n \in Children(g) :
        \/ IsCase(n) /\ first[n] # "none"
        \/ ~IsCase(n) /\ n \in runners /\ contCalls[n] >= 1 /\ contError[n] = Null }

\* the key under which the result of child n is stored
ResultKey(n) == IF IsCase(n) THEN TestName(n) ELSE GroupKey(n)

\* C39 (as stated): when a group finishes, its results mapping holds one
\* distinct entry for every function case and nested group that completed in
\* it: no result overwrites another, also when display names derived from
\* function names coincide.
C39_Original ==
    \A g \in runners :
        rfinished[g] =>
            /\ \A n \in CompletedIn(g) : \E r \in gres[g].results : r[2] = n
            /\ Cardinality(gres[g].results) = Cardinality(CompletedIn(g))

\* C39 (as coded): when a group finishes, its results mapping holds one entry
\* for every distinct key among the results of the children that completed in
\* it: a result stored under a key already present replaces the earlier one.
C39_OneEntryPerKey ==
    \A g \in runners :
        rfinished[g] =>
            /\ { r[1] : r \in gres[g].results } = { ResultKey(n) : n \in CompletedIn(g) }
            /\ Cardinality(gres[g].results) =
                   Cardinality({ ResultKey(n) : n \in CompletedIn(g) })
            /\ \A r \in gres[g].results : r[2] \in CompletedIn(g) /\ ResultKey(r[2]) = r[1]

\* an array of two functions with the same name finished with one entry: the
\* result of the first, a failure, was replaced by the second
C39_Witness ==
    /\ Size = 2
    /\ rfinished[Root]
    /\ CompletedIn(Root) = {1, 2}
    /\ ResultKey(1) = ResultKey(2)
    /\ first[1] = "failure"
    /\ gres[Root].results = {<<"two", 2>>}

\* ---------------------------------------------------------------- assertion helpers
MaxAssertNodes == 2     \* values in the trees of the tests that use the assertion helpers

\* messages a test gives to its assertions; "" when it gives none
AssertMessages == {"", "first", "second"}

ValTrue == "true"           \* the value success() passes when it is given no message

\* failure(message, callback): callback(message), with a default message
failure(message) == << IF message = "" THEN "Failure" ELSE message, Null >>

\* success(message, callback): callback(null, message), with true as default
success(message) == << Null, IF message = "" THEN ValTrue ELSE message >>

\* verify(condition, message, callback) for a condition that does not hold:
\* failure(message, callback), with a default message; equals, notEquals,
\* contains and check build their message and end with the same call
verify(message) == failure(IF message = "" THEN "Assertion error" ELSE message)

\* a test calls an assertion helper with its callback and the assertion fails
AssertFails(c, m) == Complete(c, verify(m)[1], verify(m)[2])

\* a test calls success(callback)
Succeeds(c) == Complete(c, success("")[1], success("")[2])

\* the tests that use the helpers: callback style functions, at any depth
AssertTrees ==
    { t \in UNION { TreesOfSize(n) : n \in 0..MaxAssertNodes } :
        \A i \in DOMAIN t : t[i].kind \in {"function", "object"} }

AssertInit == param \in AssertTrees /\ Start /\ NoTimer

AssertNext ==
    \/ RunAll
    \/ Return
    \/ \E c \in Nodes : \E m \in AssertMessages : AssertFails(c, m)
    \/ \E c \in Nodes : Succeeds(c)
    \/ RunDeferred
    \/ CasesStop

AssertSpec == AssertInit /\ [][AssertNext]_vars

MaxOverlapNodes == 3

\* the definitions of two calls of runAll: the entries of Root are the first
\* call's mapping, one detached mapping is the second call's
OverlapTrees ==
    UNION { { [t EXCEPT ![r].parent = Detached] :
                r \in { i \in DOMAIN t : t[i].parent = Root /\ t[i].kind = "object" } }
            : t \in UNION { TreesOfSize(n) : n \in 0..MaxOverlapNodes } }

\* the mapping a call of runAll was given, for a node below it
RECURSIVE RootOf(_)
RootOf(n) == IF IsRoot(n) THEN n ELSE RootOf(param[n].parent)

\* the nodes of the mapping whose root is r
Below(r) == { n \in 1..Size : RootOf(n) = r }

\* runAll(second, callback) is called while the first call's run goes on, up
\* to the point where it returns or its first case's function is running
RunAllSecond(r) ==
    /\ started
    /\ ~inCall
    /\ ~casesDone
    /\ r \in 1..Size
    /\ param[r].parent = Detached
    /\ r \notin runners
    /\ LET s0 == [State EXCEPT
                     !.series = [g \in Groups |->
                                    IF g \in Below(r) THEN clone(original).keys[g] ELSE @[g]],
                     !.listeners = @ + 1,
                     !.runners = @ \cup {r},
                     !.run = @ + 1,
                     !.born[r] = run + 1,
                     !.gres[r] = CompositeStart(NewCompositeResult(GroupKey(r)))]
           s1 == runOne(s0, r)
       IN  /\ Install(s1)
           /\ inCall' = (s1.dispatched # dispatched)
    /\ UNCHANGED <<apiVars, timerVars, param, cloned, started, escaped, called, settled,
                   outcome, extra, throws, casesDone>>

OverlapInit == param \in OverlapTrees /\ Start /\ NoTimer

OverlapNext == Next \/ \E r \in Nodes : RunAllSecond(r)

OverlapSpec == OverlapInit /\ [][OverlapNext]_vars

\* both calls of runAll have been made and neither has completed
BothInProgress ==
    \E r \in 1..Size :
        /\ param[r].parent = Detached
        /\ {Root, r} \subseteq runners
        /\ ~rfinished[Root] /\ ~rfinished[r]

\* an exception nobody caught is thrown by the code of dispatched case c: by
\* its function while runAll is on the stack, or by its asynchronous code
UncaughtFrom(c) ==
    /\ c \in 1..Size
    /\ IsCase(c)
    /\ dispatched[c] > 0
    /\ ThrowAsync \/ (ThrowSync(FALSE) /\ c = next)

\* no result of a run other than that of node d changes in this step
OtherRunUntouched(d) ==
    /\ \A n \in 1..Size : RootOf(n) # RootOf(d) => cres'[n] = cres[n] /\ gres'[n] = gres[n]
    /\ RootOf(d) # Root => gres'[Root] = gres[Root]

\* C38 (as stated): when two runAll invocations are in progress at the same
\* time, an uncaught exception or a deferred-value settlement originating in a
\* case of one run never changes a CaseResult or GroupResult that belongs to
\* the other run.
C38_Original ==
    [][ BothInProgress =>
          /\ \A d \in 1..Size : UncaughtFrom(d) => OtherRunUntouched(d)
          /\ \A d \in 1..Size : \A a \in SettleArgs :
                Settle(d, a[1], a[2]) => OtherRunUntouched(d) ]_vars

\* C38 (as coded): when two runAll invocations are in progress at the same
\* time, an uncaught exception or a deferred-value settlement changes the
\* CaseResult of the case dispatched last, whose handler the global next
\* holds, and the GroupResult of its group, and no other result: whichever
\* run the exception or the settlement originated in.
C38_ChangesFollowNext ==
    [][ (/\ BothInProgress
         /\ \/ \E d \in 1..Size : UncaughtFrom(d)
            \/ \E d \in 1..Size : \E a \in SettleArgs : Settle(d, a[1], a[2])) =>
          /\ \A n \in 1..Size : cres'[n] # cres[n] => n = next
          /\ \A g \in 0..Size : gres'[g] # gres[g] => g = param[next].parent ]_vars

\* the deferred value of a case of one run settled and completed the pending
\* callback style case of the other run, which has not called back itself;
\* the case that settled has no outcome
C38_Witness ==
    /\ throws = 0
    /\ \E d, c \in 1..Size :
          /\ RootOf(d) # RootOf(c)
          /\ IsAsync(d) /\ settled[d] /\ first[d] = "none"
          /\ param[c].kind = "function" /\ ~called[c] /\ first[c] # "none"

====
